---- MODULE Spec2Model ----
(***************************************************************************)
(* A model of sentry_sdk/integrations/spark/spark_driver.py: the Spark     *)
(* driver integration.  It patches SparkContext._do_init, registers a      *)
(* SentryListener on the context's listener bus, writes the application    *)
(* identity into the context's local properties and installs an event      *)
(* processor that fills in user/tags/extra of outgoing events.             *)
(*                                                                         *)
(* Three specifications share the variables:                               *)
(*   Spec          activation: setup_once, the patched _do_init, the       *)
(*                 three steps of _activate_integration, taken by          *)
(*                 concurrent threads, and the delivery of job-end events; *)
(*   SpecListener  the callbacks of SentryListener, between which the      *)
(*                 application resets properties and the identity changes; *)
(*   SpecEnrich    process_event applied to every report of a bounded set, *)
(*                 by one processor and then by a second one.              *)
(***************************************************************************)
EXTENDS Integers, Sequences, FiniteSets, TLC

VARIABLES
    enabled,      \* get_client().get_integration(SparkIntegration) is not None
    active,       \* SparkContext._active_spark_context (None or a session)
    patched,      \* SparkContext._do_init is _sentry_patched_spark_context_init
    setupCalled,  \* SparkIntegration.setup_once has been entered
    listeners,    \* per session: SentryListeners added to its listener bus
    props,        \* per session: the local properties written by setLocalProperty
    ident,        \* per session: generation of its appName / applicationId
    hooks,        \* event processors of the isolation scope: the captured sc, in order
    breadcrumbs,  \* the breadcrumb log written by sentry_sdk.add_breadcrumb
    pc,           \* per thread: position in the call it is executing
    tsc,          \* per thread: the SparkContext the call is about
    path,         \* per thread: which entry point the call came through
    did,          \* per thread: the activation steps its call has performed
    outcome,      \* per thread: how its call ended
    lastCall,     \* the last listener-bus dispatch (history)
    event,        \* the report after the last process_event
    eventBefore,  \* the report handed to the last process_event
    hookRun       \* the last process_event and the runs before it (history)

vars == <<enabled, active, patched, setupCalled, listeners, props, ident, hooks,
          breadcrumbs, pc, tsc, path, did, outcome, lastCall, event,
          eventBefore, hookRun>>

activationVars == <<patched, setupCalled, listeners, hooks, pc, tsc, path, did, outcome>>
enrichVars == <<event, eventBefore, hookRun>>

None == "None"

\* The sessions (SparkContext objects) of the model.
Sessions == {"A", "B"}

(***************************************************************************)
(* Session attributes.  Every read accessor of a SparkContext yields a     *)
(* string that names the session and the attribute; appName and            *)
(* applicationId also carry the session's identity generation.             *)
(***************************************************************************)
Attr(sc, a) == sc \o "." \o a

AppName(sc, gen) == sc \o ".appName#" \o ToString(gen)

ApplicationId(sc, gen) == sc \o ".applicationId#" \o ToString(gen)

SetDefault_Overwrite(d, k, v) == (k :> v) @@ d

\* dict.setdefault(k, v): the dict with k set to v unless k is already a key.
SetDefault(d, k, v) == IF k \in DOMAIN d THEN d ELSE d @@ (k :> v)

EmptyDict == <<>>

(***************************************************************************)
(* process_event, lines 57-85.  Each entry of EnrichSteps is one statement *)
(* of the body: the container it addresses, whether the statement creates  *)
(* the container (event.setdefault(c, {})) or indexes it (event[c]), the   *)
(* key it sets and the session attribute it reads.                         *)
(***************************************************************************)
EnrichSteps ==
    << [c |-> "user",  mk |-> TRUE,  k |-> "id",                      a |-> "sparkUser"],
       [c |-> "tags",  mk |-> TRUE,  k |-> "executor.id",             a |-> "spark.executor.id"],
       [c |-> "tags",  mk |-> FALSE, k |-> "spark-submit.deployMode", a |-> "spark.submit.deployMode"],
       [c |-> "tags",  mk |-> FALSE, k |-> "driver.host",             a |-> "spark.driver.host"],
       [c |-> "tags",  mk |-> FALSE, k |-> "driver.port",             a |-> "spark.driver.port"],
       [c |-> "tags",  mk |-> FALSE, k |-> "spark_version",           a |-> "version"],
       [c |-> "tags",  mk |-> FALSE, k |-> "app_name",                a |-> "appName"],
       [c |-> "tags",  mk |-> FALSE, k |-> "application_id",          a |-> "applicationId"],
       [c |-> "tags",  mk |-> FALSE, k |-> "master",                  a |-> "master"],
       [c |-> "tags",  mk |-> FALSE, k |-> "spark_home",              a |-> "sparkHome"],
       [c |-> "extra", mk |-> TRUE,  k |-> "web_url",                 a |-> "uiWebUrl"] >>

NSteps == Len(EnrichSteps)

\* The value statement i reads from the session.
ReadAttr(sc, gen, i) ==
    LET a == EnrichSteps[i].a
    IN  IF a = "appName" THEN AppName(sc, gen)
        ELSE IF a = "applicationId" THEN ApplicationId(sc, gen)
        ELSE Attr(sc, a)

\* The receiver of statement i is evaluated before its argument: the
\* container exists (created if the statement creates it) before the read.
WithContainer(ev, i) ==
    IF EnrichSteps[i].mk THEN SetDefault(ev, EnrichSteps[i].c, EmptyDict) ELSE ev

EnrichStep_Accumulate(ev, i, sc, gen) ==
    LET s  == EnrichSteps[i]
        e1 == WithContainer(ev, i)
        v  == ReadAttr(sc, gen, i)
    IN  [e1 EXCEPT ![s.c] = IF s.k \in DOMAIN @
                            THEN [@ EXCEPT ![s.k] = @ \o "," \o v]
                            ELSE @ @@ (s.k :> v)]

\* Statement i with a successful read.
EnrichStep(ev, i, sc, gen) ==
    LET s  == EnrichSteps[i]
        e1 == WithContainer(ev, i)
    IN  [e1 EXCEPT ![s.c] = SetDefault(@, s.k, ReadAttr(sc, gen, i))]

\* Statements i.. of the body; the read of statement failAt raises
\* (failAt = 0: no read raises).  exc: an exception left the body.
RECURSIVE EnrichFrom(_, _, _, _, _)
EnrichFrom(ev, i, sc, gen, failAt) ==
    IF i > NSteps THEN [event |-> ev, exc |-> FALSE]
    ELSE IF i = failAt THEN [event |-> WithContainer(ev, i), exc |-> TRUE]
    ELSE EnrichFrom(EnrichStep(ev, i, sc, gen), i + 1, sc, gen, failAt)

\* sentry_sdk.utils.capture_internal_exceptions: whether an exception raised
\* inside the with block leaves it.
CaptureInternalExceptions(exc) == FALSE

ProcessEventBody_NoActiveCheck(ev, sc, gen, en, act, failAt) ==
    IF ~en THEN [event |-> ev, exc |-> FALSE]
    ELSE EnrichFrom(ev, 1, sc, gen, failAt)

ProcessEventBody_ActiveSession(ev, sc, gen, en, act, failAt) ==
    IF ~en THEN [event |-> ev, exc |-> FALSE]
    ELSE IF act = None THEN [event |-> ev, exc |-> FALSE]
    ELSE EnrichFrom(ev, 1, act, gen, failAt)

\* The body of the with block of process_event.
ProcessEventBody(ev, sc, gen, en, act, failAt) ==
    IF ~en THEN [event |-> ev, exc |-> FALSE]
    ELSE IF act = None THEN [event |-> ev, exc |-> FALSE]
    ELSE EnrichFrom(ev, 1, sc, gen, failAt)

ProcessEvent_NoCapture(ev, sc, gen, en, act, failAt) ==
    LET body == ProcessEventBody(ev, sc, gen, en, act, failAt)
    IN  [event |-> body.event, raised |-> body.exc]

\* process_event(event, hint) of the processor that captured sc.
ProcessEvent(ev, sc, gen, en, act, failAt) ==
    LET body == ProcessEventBody(ev, sc, gen, en, act, failAt)
    IN  [event |-> body.event, raised |-> CaptureInternalExceptions(body.exc)]

SetAppProperties_Accumulate(pr, act, idn) ==
    IF act # None
    THEN LET name == IF "sentry_app_name" \in DOMAIN pr[act]
                     THEN pr[act]["sentry_app_name"] \o "," \o AppName(act, idn[act])
                     ELSE AppName(act, idn[act])
             p1 == ("sentry_app_name" :> name) @@ pr[act]
             p2 == ("sentry_application_id" :> ApplicationId(act, idn[act])) @@ p1
         IN  [pr EXCEPT ![act] = p2]
    ELSE pr

(***************************************************************************)
(* _set_app_properties, lines 23-36: the application identity of the       *)
(* ACTIVE context (not of a given one) is written to that context's local  *)
(* properties; nothing is written when no context is active.               *)
(***************************************************************************)
SetAppProperties(pr, act, idn) ==
    IF act # None
    THEN LET p1 == ("sentry_app_name" :> AppName(act, idn[act])) @@ pr[act]
             p2 == ("sentry_application_id" :> ApplicationId(act, idn[act])) @@ p1
         IN  [pr EXCEPT ![act] = p2]
    ELSE pr

(***************************************************************************)
(* SentryListener, lines 225-273.  A handler takes the state it can change *)
(* (st.log: the breadcrumb log, st.props: the local properties,            *)
(* st.raised: handler invocations that ended in an exception) and yields   *)
(* the state after it.  sentry_sdk.add_breadcrumb appends to the log.      *)
(***************************************************************************)
AddBreadcrumb(log, crumb) == Append(log, crumb)

\* "Job {} Started".format(jobId) and the like.
Format(prefix, id, suffix) == prefix \o " " \o ToString(id) \o " " \o suffix

OnJobStart(st, act, idn, jobStart) ==
    LET message == Format("Job", jobStart.jobId, "Started")
    IN  [st EXCEPT !.log = AddBreadcrumb(@, [level |-> "info", message |-> message]),
                   !.props = SetAppProperties(@, act, idn)]

OnJobEnd_AlwaysInfo(st, jobEnd) ==
    [st EXCEPT !.log = AddBreadcrumb(@, [level |-> "info",
                                         message |-> Format("Job", jobEnd.jobId, "Ended"),
                                         data |-> [result |-> jobEnd.jobResult]])]

OnJobEnd_Prepend(st, jobEnd) ==
    LET ok == jobEnd.jobResult = "JobSucceeded"
    IN  [st EXCEPT !.log = <<[level |-> IF ok THEN "info" ELSE "warning",
                              message |-> IF ok THEN Format("Job", jobEnd.jobId, "Ended")
                                                ELSE Format("Job", jobEnd.jobId, "Failed"),
                              data |-> [result |-> jobEnd.jobResult]]>> \o @]

OnJobEnd(st, jobEnd) ==
    LET data    == [result |-> jobEnd.jobResult]
        ok      == jobEnd.jobResult = "JobSucceeded"
        level   == IF ok THEN "info" ELSE "warning"
        message == IF ok THEN Format("Job", jobEnd.jobId, "Ended")
                         ELSE Format("Job", jobEnd.jobId, "Failed")
    IN  [st EXCEPT !.log = AddBreadcrumb(@, [level |-> level, message |-> message,
                                             data |-> data])]

OnStageSubmitted_NoPropagate(st, act, idn, stageInfo) ==
    [st EXCEPT !.log = AddBreadcrumb(@,
        [level |-> "info",
         message |-> Format("Stage", stageInfo.stageId, "Submitted"),
         data |-> [attemptId |-> stageInfo.attemptId, name |-> stageInfo.name]])]

OnStageSubmitted(st, act, idn, stageInfo) ==
    LET message == Format("Stage", stageInfo.stageId, "Submitted")
        data    == [attemptId |-> stageInfo.attemptId, name |-> stageInfo.name]
    IN  [st EXCEPT !.log = AddBreadcrumb(@, [level |-> "info", message |-> message,
                                             data |-> data]),
                   !.props = SetAppProperties(@, act, idn)]

(***************************************************************************)
(* stage_info.failureReason().get() through the py4j gateway.  The read    *)
(* returns the reason, or raises: Py4JJavaError when the JVM side threw    *)
(* (Option.get on None throws NoSuchElementException; any other exception  *)
(* thrown in the JVM arrives as the same class), Py4JNetworkError when the *)
(* gateway connection failed.                                              *)
(***************************************************************************)
ReadFailureReason(reason, fault) ==
    IF fault = "network" THEN [exc |-> "Py4JNetworkError", cause |-> "connection"]
    ELSE IF fault = "jvm" THEN [exc |-> "Py4JJavaError", cause |-> "other"]
    ELSE IF reason = None THEN [exc |-> "Py4JJavaError", cause |-> "NoSuchElementException"]
    ELSE [exc |-> "none", value |-> reason]

OnStageCompleted_ReasonAlways(st, stageInfo, read) ==
    LET data == [attemptId |-> stageInfo.attemptId, name |-> stageInfo.name]
    IN  IF read.exc = "none"
        THEN [st EXCEPT !.log = AddBreadcrumb(@,
                 [level |-> "warning",
                  message |-> Format("Stage", stageInfo.stageId, "Failed"),
                  data |-> ("reason" :> read.value) @@ data])]
        ELSE IF read.exc = "Py4JJavaError"
        THEN [st EXCEPT !.log = AddBreadcrumb(@,
                 [level |-> "info",
                  message |-> Format("Stage", stageInfo.stageId, "Completed"),
                  data |-> ("reason" :> None) @@ data])]
        ELSE [st EXCEPT !.raised = @ + 1]

OnStageCompleted(st, stageInfo, read) ==
    LET data == [attemptId |-> stageInfo.attemptId, name |-> stageInfo.name]
    IN  IF read.exc = "none"
        THEN [st EXCEPT !.log = AddBreadcrumb(@,
                 [level |-> "warning",
                  message |-> Format("Stage", stageInfo.stageId, "Failed"),
                  data |-> ("reason" :> read.value) @@ data])]
        ELSE IF read.exc = "Py4JJavaError"
        THEN [st EXCEPT !.log = AddBreadcrumb(@,
                 [level |-> "info",
                  message |-> Format("Stage", stageInfo.stageId, "Completed"),
                  data |-> data])]
        ELSE [st EXCEPT !.raised = @ + 1]

\* The callback kinds SparkListener defines and SentryListener leaves alone.
NoOpKinds ==
    {"onApplicationEnd", "onApplicationStart", "onBlockManagerAdded",
     "onBlockManagerRemoved", "onBlockUpdated", "onEnvironmentUpdate",
     "onExecutorAdded", "onExecutorBlacklisted", "onExecutorBlacklistedForStage",
     "onExecutorMetricsUpdate", "onExecutorRemoved", "onNodeBlacklisted",
     "onNodeBlacklistedForStage", "onNodeUnblacklisted", "onOtherEvent",
     "onSpeculativeTaskSubmitted", "onTaskEnd", "onTaskGettingResult",
     "onTaskStart", "onUnpersistRDD"}

Handle_OtherEmits(st, act, idn, call, fault) ==
    CASE call.kind = "onJobStart"       -> OnJobStart(st, act, idn, call.arg)
      [] call.kind = "onJobEnd"         -> OnJobEnd(st, call.arg)
      [] call.kind = "onStageSubmitted" -> OnStageSubmitted(st, act, idn, call.arg.stageInfo)
      [] call.kind = "onStageCompleted" ->
            OnStageCompleted(st, call.arg.stageInfo,
                             ReadFailureReason(call.arg.reason, fault))
      [] OTHER -> [st EXCEPT !.log = AddBreadcrumb(@, [level |-> "info",
                                                       message |-> call.kind])]

\* One invocation of the callback call.kind on one SentryListener.
Handle(st, act, idn, call, fault) ==
    CASE call.kind = "onJobStart"       -> OnJobStart(st, act, idn, call.arg)
      [] call.kind = "onJobEnd"         -> OnJobEnd(st, call.arg)
      [] call.kind = "onStageSubmitted" -> OnStageSubmitted(st, act, idn, call.arg.stageInfo)
      [] call.kind = "onStageCompleted" ->
            OnStageCompleted(st, call.arg.stageInfo,
                             ReadFailureReason(call.arg.reason, fault))
      [] OTHER -> st

\* The listener bus invokes the callback on each of the n listeners of the
\* session, in registration order; an exception of one listener does not
\* keep the bus from invoking the next.
RECURSIVE Dispatch(_, _, _, _, _, _)
Dispatch(st, act, idn, call, faults, i) ==
    IF i > Len(faults) THEN st
    ELSE Dispatch(Handle(st, act, idn, call, faults[i]), act, idn, call, faults, i + 1)

NoRun == [ran |-> FALSE, sc |-> None, failAt |-> 0, raised |-> FALSE,
          n |-> 0, sc1 |-> None, event0 |-> EmptyDict]

(***************************************************************************)
(* Delivery of listener-bus events.  The inputs of the callbacks.          *)
(***************************************************************************)
\* The longest breadcrumb log SpecListener follows.
MaxCrumbs == 2

\* The longest breadcrumb log Spec follows.
MaxLog == 2

\* The events SpecListener delivers.  reasons: what stageInfo.failureReason()
\* holds, None (no failure) or the reason; faults: what can happen to the
\* gateway read of it.
ListenerInputs ==
    [jobIds |-> {7, 8},
     jobResults |-> {"JobSucceeded", "JobFailed", "JobCancelled"},
     stageInfos |-> [stageId : {1, 2}, attemptId : {0}, name : {"map"}],
     reasons |-> {None, "OOM"},
     faults |-> {"none", "jvm", "network"},
     cap |-> MaxCrumbs]

\* The events Spec delivers.
ActivationInputs ==
    [jobIds |-> {7},
     jobResults |-> {"JobSucceeded"},
     stageInfos |-> [stageId : {1}, attemptId : {0}, name : {"map"}],
     reasons |-> {None},
     faults |-> {"none", "network"},
     cap |-> MaxLog]

NoCall == [kind |-> "none"]

\* The bus of session s delivers call to each SentryListener registered on
\* it; faults[i] is what happens to the gateway read of the i-th invocation.
Deliver(s, call, faults, cap) ==
    /\ listeners[s] >= 1
    /\ Len(faults) = listeners[s]
    /\ Len(breadcrumbs) + listeners[s] <= cap
    /\ LET st == Dispatch([log |-> breadcrumbs, props |-> props, raised |-> 0],
                          active, ident, call, faults, 1)
       IN  /\ breadcrumbs' = st.log
           /\ props' = st.props
           /\ lastCall' = [kind |-> call.kind, arg |-> call.arg, sc |-> s,
                           n |-> listeners[s], log0 |-> breadcrumbs,
                           faults |-> faults, raised |-> st.raised]
    /\ UNCHANGED <<enabled, active, ident>>
    /\ UNCHANGED activationVars
    /\ UNCHANGED enrichVars

NoFaults(s) == [i \in 1..listeners[s] |-> "none"]

DeliverJobStart(s, inp) ==
    \E jobId \in inp.jobIds :
        Deliver(s, [kind |-> "onJobStart", arg |-> [jobId |-> jobId]], NoFaults(s),
                inp.cap)

DeliverJobEnd(s, inp) ==
    \E jobId \in inp.jobIds, jobResult \in inp.jobResults :
        Deliver(s, [kind |-> "onJobEnd",
                    arg |-> [jobId |-> jobId, jobResult |-> jobResult]], NoFaults(s),
                inp.cap)

DeliverStageSubmitted(s, inp) ==
    \E stageInfo \in inp.stageInfos :
        Deliver(s, [kind |-> "onStageSubmitted", arg |-> [stageInfo |-> stageInfo]],
                NoFaults(s), inp.cap)

DeliverStageCompleted(s, inp) ==
    \E stageInfo \in inp.stageInfos, reason \in inp.reasons,
       faults \in [1..listeners[s] -> inp.faults] :
        Deliver(s, [kind |-> "onStageCompleted",
                    arg |-> [stageInfo |-> stageInfo, reason |-> reason]], faults,
                inp.cap)

DeliverOther(s, inp) ==
    \E kind \in NoOpKinds :
        Deliver(s, [kind |-> kind, arg |-> None], NoFaults(s), inp.cap)

(***************************************************************************)
(* SpecListener: the callbacks of the SentryListeners of session "A".      *)
(***************************************************************************)
\* The most listeners a bus starts with.
MaxListeners == 2

InitListener ==
    /\ enabled = TRUE
    /\ active \in Sessions \cup {None}
    /\ patched = TRUE
    /\ setupCalled = TRUE
    /\ \E n \in 1..MaxListeners :
          /\ listeners = [s \in Sessions |-> IF s = "A" THEN n ELSE 0]
          /\ hooks = [i \in 1..n |-> "A"]
    /\ props = [s \in Sessions |-> EmptyDict]
    /\ ident = [s \in Sessions |-> 1]
    /\ breadcrumbs = <<>>
    /\ pc = <<>>
    /\ tsc = <<>>
    /\ path = <<>>
    /\ did = <<>>
    /\ outcome = <<>>
    /\ lastCall = NoCall
    /\ event = EmptyDict
    /\ eventBefore = EmptyDict
    /\ hookRun = NoRun

\* The local properties the program does not write: what the engine or the
\* application may have put into a session's store, or nothing.
ForeignProperties == {EmptyDict, [spark_scheduler_pool |-> "pool"]}

\* The application replaces the local properties of session s, the session
\* the callbacks write to or, with none active, a session whose store must
\* stay as it is (clearing whatever lines 34-35 had written).
ResetLocalProperties(s) ==
    /\ s = IF active # None THEN active ELSE "A"
    /\ \E d \in ForeignProperties :
          /\ props[s] # d
          /\ props' = [props EXCEPT ![s] = d]
    /\ lastCall' = NoCall
    /\ UNCHANGED <<enabled, active, ident, breadcrumbs>>
    /\ UNCHANGED activationVars
    /\ UNCHANGED enrichVars

\* The most generations of a session's identity SpecListener follows.
MaxIdent == 2

\* The active session comes to report another appName and applicationId
\* (what lines 30-31 read changes between two callbacks).
ChangeIdentity ==
    /\ active # None
    /\ ident[active] < MaxIdent
    /\ ident' = [ident EXCEPT ![active] = @ + 1]
    /\ lastCall' = NoCall
    /\ UNCHANGED <<enabled, active, props, breadcrumbs>>
    /\ UNCHANGED activationVars
    /\ UNCHANGED enrichVars

NextListener ==
    \/ \E s \in Sessions :
          \/ DeliverJobStart(s, ListenerInputs)
          \/ DeliverJobEnd(s, ListenerInputs)
          \/ DeliverStageSubmitted(s, ListenerInputs)
          \/ DeliverStageCompleted(s, ListenerInputs)
          \/ DeliverOther(s, ListenerInputs)
          \/ ResetLocalProperties(s)
    \/ ChangeIdentity

SpecListener == InitListener /\ [][NextListener]_vars

(***************************************************************************)
(* Activation.  Each thread makes one call: SparkIntegration.setup_once    *)
(* (at most one thread, once per process) or sc._do_init for a session.    *)
(* A step of a thread is one call into the engine or the reporting client. *)
(*   pc:      idle, setup, patch, wrapper, orig, listener, props, hook,    *)
(*            done                                                         *)
(*   path:    none, setup, patched, passthrough, unpatched                 *)
(*   outcome: none, returned, init_raised, listener_raised, props_raised   *)
(*   did:     the steps the call has completed, in order: orig, listener,  *)
(*            props, hook, patch                                           *)
(***************************************************************************)
Threads == {"t1", "t2"}

\* A step of thread t that changes only the thread's own position.
Goto(t, to) == pc' = [pc EXCEPT ![t] = to]

Finish(t, how) ==
    /\ pc' = [pc EXCEPT ![t] = "done"]
    /\ outcome' = [outcome EXCEPT ![t] = how]

\* SparkIntegration.setup_once, lines 17-20: enters _setup_sentry_tracing.
CallSetupOnce(t) ==
    /\ pc[t] = "idle"
    /\ ~setupCalled
    /\ setupCalled' = TRUE
    /\ Goto(t, "setup")
    /\ path' = [path EXCEPT ![t] = "setup"]
    /\ UNCHANGED <<enabled, active, patched, listeners, props, ident, hooks,
                   breadcrumbs, tsc, did, outcome, lastCall>>
    /\ UNCHANGED enrichVars

SetupCheckActive_NoActivation(t) ==
    /\ pc[t] = "setup"
    /\ IF active # None
       THEN tsc' = [tsc EXCEPT ![t] = active]
       ELSE UNCHANGED tsc
    /\ Goto(t, "patch")
    /\ UNCHANGED <<enabled, active, patched, setupCalled, listeners, props, ident,
                   hooks, breadcrumbs, path, did, outcome, lastCall>>
    /\ UNCHANGED enrichVars

\* _setup_sentry_tracing, lines 117-118: activate the context that is
\* already active, if any.
SetupCheckActive(t) ==
    /\ pc[t] = "setup"
    /\ IF active # None
       THEN /\ tsc' = [tsc EXCEPT ![t] = active]
            /\ Goto(t, "listener")
       ELSE /\ Goto(t, "patch")
            /\ UNCHANGED tsc
    /\ UNCHANGED <<enabled, active, patched, setupCalled, listeners, props, ident,
                   hooks, breadcrumbs, path, did, outcome, lastCall>>
    /\ UNCHANGED enrichVars

\* _patch_spark_context_init, lines 97-110: SparkContext._do_init becomes
\* the wrapper.
PatchSparkContextInit(t) ==
    /\ pc[t] = "patch"
    /\ patched' = TRUE
    /\ did' = [did EXCEPT ![t] = Append(@, "patch")]
    /\ Finish(t, "returned")
    /\ UNCHANGED <<enabled, active, setupCalled, listeners, props, ident, hooks,
                   breadcrumbs, tsc, path, lastCall>>
    /\ UNCHANGED enrichVars

\* The engine initializes session s: it calls s._do_init, which is the
\* wrapper once the patch is installed and the original before.
CallDoInit(t, s) ==
    /\ pc[t] = "idle"
    /\ tsc' = [tsc EXCEPT ![t] = s]
    /\ IF patched
       THEN /\ Goto(t, "wrapper")
            /\ UNCHANGED path
       ELSE /\ Goto(t, "orig")
            /\ path' = [path EXCEPT ![t] = "unpatched"]
    /\ UNCHANGED <<enabled, active, patched, setupCalled, listeners, props, ident,
                   hooks, breadcrumbs, did, outcome, lastCall>>
    /\ UNCHANGED enrichVars

\* sentry_sdk.utils.ensure_integration_enabled(SparkIntegration,
\* spark_context_init): the function the decorated wrapper runs.
EnsureIntegrationEnabled(en) == IF en THEN "patched" ELSE "passthrough"

\* The decorator of line 103 chooses between the patched function and the
\* original.
WrapperCheck(t) ==
    /\ pc[t] = "wrapper"
    /\ path' = [path EXCEPT ![t] = EnsureIntegrationEnabled(enabled)]
    /\ Goto(t, "orig")
    /\ UNCHANGED <<enabled, active, patched, setupCalled, listeners, props, ident,
                   hooks, breadcrumbs, tsc, did, outcome, lastCall>>
    /\ UNCHANGED enrichVars

OrigInitReturns_ActivateAlways(t) ==
    /\ pc[t] = "orig"
    /\ active' = tsc[t]
    /\ did' = [did EXCEPT ![t] = Append(@, "orig")]
    /\ IF path[t] \in {"patched", "passthrough"}
       THEN /\ Goto(t, "listener")
            /\ UNCHANGED outcome
       ELSE Finish(t, "returned")
    /\ UNCHANGED <<enabled, patched, setupCalled, listeners, props, ident, hooks,
                   breadcrumbs, tsc, path, lastCall>>
    /\ UNCHANGED enrichVars

\* Line 106 (or the original called directly): the original initialization
\* returns, and the session is the active one; line 107 follows in the
\* patched function only.
OrigInitReturns(t) ==
    /\ pc[t] = "orig"
    /\ active' = tsc[t]
    /\ did' = [did EXCEPT ![t] = Append(@, "orig")]
    /\ IF path[t] = "patched"
       THEN /\ Goto(t, "listener")
            /\ UNCHANGED outcome
       ELSE Finish(t, "returned")
    /\ UNCHANGED <<enabled, patched, setupCalled, listeners, props, ident, hooks,
                   breadcrumbs, tsc, path, lastCall>>
    /\ UNCHANGED enrichVars

OrigInitRaises_ActivateAnyway(t) ==
    /\ pc[t] = "orig"
    /\ IF path[t] = "patched"
       THEN /\ Goto(t, "listener")
            /\ UNCHANGED outcome
       ELSE Finish(t, "init_raised")
    /\ UNCHANGED <<enabled, active, patched, setupCalled, listeners, props, ident,
                   hooks, breadcrumbs, tsc, path, did, lastCall>>
    /\ UNCHANGED enrichVars

\* Line 106: the original initialization raises; the exception leaves the
\* wrapper.
OrigInitRaises(t) ==
    /\ pc[t] = "orig"
    /\ Finish(t, "init_raised")
    /\ UNCHANGED <<enabled, active, patched, setupCalled, listeners, props, ident,
                   hooks, breadcrumbs, tsc, path, did, lastCall>>
    /\ UNCHANGED enrichVars

StartSentryListener_OnActive(t) ==
    /\ pc[t] = "listener"
    /\ listeners' = [listeners EXCEPT ![IF active # None THEN active ELSE tsc[t]] = @ + 1]
    /\ did' = [did EXCEPT ![t] = Append(@, "listener")]
    /\ Goto(t, "props")
    /\ UNCHANGED <<enabled, active, patched, setupCalled, props, ident, hooks,
                   breadcrumbs, tsc, path, outcome, lastCall>>
    /\ UNCHANGED enrichVars

\* _start_sentry_listener, lines 39-49: a new SentryListener is added to
\* the listener bus of sc.
StartSentryListener(t) ==
    /\ pc[t] = "listener"
    /\ listeners' = [listeners EXCEPT ![tsc[t]] = @ + 1]
    /\ did' = [did EXCEPT ![t] = Append(@, "listener")]
    /\ Goto(t, "props")
    /\ UNCHANGED <<enabled, active, patched, setupCalled, props, ident, hooks,
                   breadcrumbs, tsc, path, outcome, lastCall>>
    /\ UNCHANGED enrichVars

\* Lines 46-49: the gateway call raises (callback server or JVM fault); the
\* exception leaves _activate_integration and its caller.
StartSentryListenerRaises(t) ==
    /\ pc[t] = "listener"
    /\ Finish(t, "listener_raised")
    /\ UNCHANGED <<enabled, active, patched, setupCalled, listeners, props, ident,
                   hooks, breadcrumbs, tsc, path, did, lastCall>>
    /\ UNCHANGED enrichVars

SetAppPropertiesStep_BeforeListener(t) ==
    /\ pc[t] = "listener"
    /\ "props" \notin {did[t][i] : i \in DOMAIN did[t]}
    /\ props' = SetAppProperties(props, active, ident)
    /\ did' = [did EXCEPT ![t] = Append(@, "props")]
    /\ UNCHANGED <<enabled, active, patched, setupCalled, listeners, ident, hooks,
                   breadcrumbs, pc, tsc, path, outcome, lastCall>>
    /\ UNCHANGED enrichVars

\* Line 93: _set_app_properties().
SetAppPropertiesStep(t) ==
    /\ pc[t] = "props"
    /\ props' = SetAppProperties(props, active, ident)
    /\ did' = [did EXCEPT ![t] = Append(@, "props")]
    /\ Goto(t, "hook")
    /\ UNCHANGED <<enabled, active, patched, setupCalled, listeners, ident, hooks,
                   breadcrumbs, tsc, path, outcome, lastCall>>
    /\ UNCHANGED enrichVars

\* Lines 30-35 inside line 93: with a context active, applicationId and
\* setLocalProperty are calls into the JVM; nothing around them or around
\* the caller catches, so a gateway fault ends the call with sc's listener
\* registered and no processor added.
SetAppPropertiesRaises(t) ==
    /\ pc[t] = "props"
    /\ active # None
    /\ Finish(t, "props_raised")
    /\ UNCHANGED <<enabled, active, patched, setupCalled, listeners, props, ident,
                   hooks, breadcrumbs, tsc, path, did, lastCall>>
    /\ UNCHANGED enrichVars

\* _add_event_processor, lines 52-56: a processor that captured sc is added
\* to the isolation scope; _activate_integration returns to its caller.
AddEventProcessor(t) ==
    /\ pc[t] = "hook"
    /\ hooks' = Append(hooks, tsc[t])
    /\ did' = [did EXCEPT ![t] = Append(@, "hook")]
    /\ IF path[t] = "setup"
       THEN /\ Goto(t, "patch")
            /\ UNCHANGED outcome
       ELSE Finish(t, "returned")
    /\ UNCHANGED <<enabled, active, patched, setupCalled, listeners, props, ident,
                   breadcrumbs, tsc, path, lastCall>>
    /\ UNCHANGED enrichVars

\* The engine shuts the active session down.
StopContext ==
    /\ active # None
    /\ active' = None
    /\ UNCHANGED <<enabled, props, ident, breadcrumbs, lastCall>>
    /\ UNCHANGED activationVars
    /\ UNCHANGED enrichVars

\* The reporting client is replaced by one with, or without, the integration.
SetClient ==
    /\ enabled' = ~enabled
    /\ UNCHANGED <<active, props, ident, breadcrumbs, lastCall>>
    /\ UNCHANGED activationVars
    /\ UNCHANGED enrichVars

\* The process before setup_once (a session may already be active), or
\* after a setup_once that found no active session and installed the patch.
Init ==
    /\ enabled = TRUE
    /\ \/ active \in {None, "A"} /\ patched = FALSE /\ setupCalled = FALSE
       \/ active = None /\ patched = TRUE /\ setupCalled = TRUE
    /\ listeners = [s \in Sessions |-> 0]
    /\ props = [s \in Sessions |-> EmptyDict]
    /\ ident = [s \in Sessions |-> 1]
    /\ hooks = <<>>
    /\ breadcrumbs = <<>>
    /\ pc = [t \in Threads |-> "idle"]
    /\ tsc = [t \in Threads |-> None]
    /\ path = [t \in Threads |-> "none"]
    /\ did = [t \in Threads |-> <<>>]
    /\ outcome = [t \in Threads |-> "none"]
    /\ lastCall = NoCall
    /\ event = EmptyDict
    /\ eventBefore = EmptyDict
    /\ hookRun = NoRun

Next ==
    \/ \E t \in Threads :
          \/ CallSetupOnce(t)
          \/ SetupCheckActive(t)
          \/ PatchSparkContextInit(t)
          \/ \E s \in Sessions : CallDoInit(t, s)
          \/ WrapperCheck(t)
          \/ OrigInitReturns(t)
          \/ OrigInitRaises(t)
          \/ StartSentryListener(t)
          \/ StartSentryListenerRaises(t)
          \/ SetAppPropertiesStep(t)
          \/ SetAppPropertiesRaises(t)
          \/ AddEventProcessor(t)
    \/ StopContext
    \/ SetClient
    \/ \E s \in Sessions :
          \/ DeliverJobStart(s, ActivationInputs)
          \/ DeliverJobEnd(s, ActivationInputs)
          \/ DeliverStageSubmitted(s, ActivationInputs)
          \/ DeliverStageCompleted(s, ActivationInputs)

Spec == Init /\ [][Next]_vars

(***************************************************************************)
(* SpecEnrich: process_event applied to the reports of a bounded set.      *)
(***************************************************************************)
Containers == {"user", "tags", "extra"}

TagKeys == {"executor.id", "spark-submit.deployMode", "driver.host", "driver.port",
            "spark_version", "app_name", "application_id", "master", "spark_home"}

\* The value of a field set upstream, before the processor runs.
Preset == "X"

UserDicts == {[k \in S |-> Preset] : S \in SUBSET {"id"}}

TagDicts == {[k \in S |-> Preset] : S \in SUBSET TagKeys}

ExtraDicts == {[k \in S |-> Preset] : S \in SUBSET {"web_url"}}

\* Every report whose fields are each absent or set upstream; a container may
\* be absent, empty or partly filled.
Reports ==
    UNION { { [c \in P |-> IF c = "user" THEN u ELSE IF c = "tags" THEN t ELSE x] :
                u \in UserDicts, t \in TagDicts, x \in ExtraDicts } :
            P \in SUBSET Containers }

InitEnrich ==
    /\ enabled \in BOOLEAN
    /\ active \in Sessions \cup {None}
    /\ patched = TRUE
    /\ setupCalled = TRUE
    /\ listeners = [s \in Sessions |-> 0]
    /\ props = [s \in Sessions |-> EmptyDict]
    /\ ident = [s \in Sessions |-> 1]
    /\ hooks = <<>>
    /\ breadcrumbs = <<>>
    /\ pc = <<>>
    /\ tsc = <<>>
    /\ path = <<>>
    /\ did = <<>>
    /\ outcome = <<>>
    /\ lastCall = NoCall
    /\ event \in Reports
    /\ eventBefore = event
    /\ hookRun = NoRun

\* The reporting pipeline hands the report in flight to the processor that
\* captured sc.  A read can raise only when the body reaches the reads.
RunProcessEvent ==
    \E sc \in Sessions, failAt \in 0..NSteps :
        /\ ~hookRun.ran
        /\ (~enabled \/ active = None) => failAt = 0
        /\ LET r == ProcessEvent(event, sc, ident[sc], enabled, active, failAt)
           IN  /\ eventBefore' = event
               /\ event' = r.event
               /\ hookRun' = [ran |-> TRUE, sc |-> sc, failAt |-> failAt,
                              raised |-> r.raised, n |-> 1, sc1 |-> sc,
                              event0 |-> event]
        /\ UNCHANGED <<enabled, active, props, ident, breadcrumbs, lastCall>>
        /\ UNCHANGED activationVars

\* The pipeline runs every processor of the scope on the report: after the
\* first one, a second processor, which captured sc (the same session when
\* it was activated twice, another one when the session was replaced),
\* gets the report the first one returned.  Nothing changes between the two
\* runs: the same read raises again, if one did.
RunSecondProcessEvent ==
    \E sc \in Sessions :
        /\ hookRun.n = 1
        /\ LET r == ProcessEvent(event, sc, ident[sc], enabled, active, hookRun.failAt)
           IN  /\ eventBefore' = event
               /\ event' = r.event
               /\ hookRun' = [hookRun EXCEPT !.sc = sc, !.raised = r.raised, !.n = 2]
        /\ UNCHANGED <<enabled, active, props, ident, breadcrumbs, lastCall>>
        /\ UNCHANGED activationVars

NextEnrich == RunProcessEvent \/ RunSecondProcessEvent

SpecEnrich == InitEnrich /\ [][NextEnrich]_vars

(***************************************************************************)
(* Claims about process_event (checked under SpecEnrich).                  *)
(***************************************************************************)
Absent == "<absent>"

\* The value of field c.k of a report, or Absent.
FieldOf(ev, c, k) ==
    IF c \in DOMAIN ev /\ k \in DOMAIN ev[c] THEN ev[c][k] ELSE Absent

\* The fields the processor manages.
ManagedFields ==
    { <<"user", "id">>, <<"extra", "web_url">> } \cup
    { <<"tags", k>> : k \in {"executor.id", "spark-submit.deployMode", "driver.host",
                             "driver.port", "spark_version", "app_name",
                             "application_id", "master", "spark_home"} }

\* C2: a managed field that is present on the report before enrichment has
\* the same value after it, whatever the session and whichever read fails.
C2_PresetFieldsKept ==
    hookRun.ran =>
        \A f \in ManagedFields :
            FieldOf(eventBefore, f[1], f[2]) # Absent =>
                FieldOf(event, f[1], f[2]) = FieldOf(eventBefore, f[1], f[2])

\* A report with app_name set upstream and application_id not set was
\* enriched from an active session: app_name kept, application_id filled in.
C2_Witness ==
    /\ hookRun.ran /\ enabled /\ active # None /\ hookRun.failAt = 0
    /\ FieldOf(eventBefore, "tags", "app_name") = Preset
    /\ FieldOf(eventBefore, "tags", "application_id") = Absent
    /\ FieldOf(event, "tags", "app_name") = Preset
    /\ FieldOf(event, "tags", "application_id") = ApplicationId(hookRun.sc, ident[hookRun.sc])

\* C3: with the integration not enabled, or with no active session, the
\* processor returns the report as it was and raises nothing.
C3_DisabledOrNoSessionUnmodified ==
    (hookRun.ran /\ (~enabled \/ active = None)) =>
        (event = eventBefore /\ ~hookRun.raised)

\* The processor ran with the integration enabled and no session active on a
\* report that lacks tags.
C3_Witness ==
    /\ hookRun.ran /\ enabled /\ active = None
    /\ "tags" \notin DOMAIN eventBefore
    /\ event = eventBefore

\* C4: when the read of statement failAt raises, the processor raises
\* nothing; the fields of the statements before it are merged (kept if set
\* upstream, else the session's value) and the fields of that statement and
\* the later ones are as they were.
C4_ReadFailureContained ==
    (hookRun.ran /\ hookRun.failAt > 0) =>
        /\ ~hookRun.raised
        /\ \A i \in 1..NSteps :
              LET c      == EnrichSteps[i].c
                  k      == EnrichSteps[i].k
                  before == FieldOf(eventBefore, c, k)
              IN  FieldOf(event, c, k) =
                    IF i < hookRun.failAt /\ before = Absent
                    THEN ReadAttr(hookRun.sc, ident[hookRun.sc], i)
                    ELSE before

\* The read of app_name raised on a report without tags: spark_version was
\* merged, app_name and the later fields were not.
C4_Witness ==
    /\ hookRun.ran /\ hookRun.failAt > 0 /\ ~hookRun.raised
    /\ EnrichSteps[hookRun.failAt].k = "app_name"
    /\ "tags" \notin DOMAIN eventBefore
    /\ FieldOf(event, "tags", "spark_version") = Attr(hookRun.sc, "version")
    /\ FieldOf(event, "tags", "app_name") = Absent
    /\ FieldOf(event, "extra", "web_url") = Absent

(***************************************************************************)
(* Claims about the SentryListener callbacks (checked under SpecListener). *)
(***************************************************************************)
\* The breadcrumbs the last dispatch appended.
Appended == SubSeq(breadcrumbs, Len(lastCall.log0) + 1, Len(breadcrumbs))

\* The last dispatch left the earlier breadcrumbs as they were.
KeptLog == SubSeq(breadcrumbs, 1, Len(lastCall.log0)) = lastCall.log0

\* C5: each onJobEnd invocation appends one breadcrumb with data
\* {result: jobResult}: info "Job {jobId} Ended" exactly for "JobSucceeded",
\* warning "Job {jobId} Failed" for every other result.
C5_JobEndBreadcrumb ==
    lastCall.kind = "onJobEnd" =>
        LET id  == ToString(lastCall.arg.jobId)
            res == lastCall.arg.jobResult
            expected ==
                IF res = "JobSucceeded"
                THEN [level |-> "info", message |-> "Job " \o id \o " Ended",
                      data |-> [result |-> res]]
                ELSE [level |-> "warning", message |-> "Job " \o id \o " Failed",
                      data |-> [result |-> res]]
        IN  /\ KeptLog
            /\ Appended = [i \in 1..lastCall.n |-> expected]

\* onJobEnd(7, "JobFailed") was delivered to one listener and the log ends
\* with the warning breadcrumb "Job 7 Failed".
C5_Witness ==
    /\ lastCall.kind = "onJobEnd" /\ lastCall.n = 1
    /\ lastCall.arg = [jobId |-> 7, jobResult |-> "JobFailed"]
    /\ breadcrumbs[Len(breadcrumbs)] =
          [level |-> "warning", message |-> "Job 7 Failed", data |-> [result |-> "JobFailed"]]

\* C6: when the failure-reason read yields a value, each onStageCompleted
\* invocation appends the warning breadcrumb "Stage {id} Failed" with data
\* {attemptId, name, reason}; when it yields the empty-option signal, the
\* info breadcrumb "Stage {id} Completed" with data {attemptId, name} only.
C6_StageCompletedBreadcrumb ==
    (lastCall.kind = "onStageCompleted" /\ \A i \in 1..lastCall.n : lastCall.faults[i] = "none") =>
        LET info == lastCall.arg.stageInfo
            id   == ToString(info.stageId)
            expected ==
                IF lastCall.arg.reason # None
                THEN [level |-> "warning", message |-> "Stage " \o id \o " Failed",
                      data |-> [attemptId |-> info.attemptId, name |-> info.name,
                                reason |-> lastCall.arg.reason]]
                ELSE [level |-> "info", message |-> "Stage " \o id \o " Completed",
                      data |-> [attemptId |-> info.attemptId, name |-> info.name]]
        IN  /\ KeptLog
            /\ Appended = [i \in 1..lastCall.n |-> expected]

\* A stage without failure reason completed: the log ends with an info
\* breadcrumb whose data has no reason key.
C6_Witness ==
    /\ lastCall.kind = "onStageCompleted" /\ lastCall.n = 1
    /\ lastCall.faults[1] = "none" /\ lastCall.arg.reason = None
    /\ lastCall.arg.stageInfo.stageId = 2
    /\ breadcrumbs[Len(breadcrumbs)].level = "info"
    /\ breadcrumbs[Len(breadcrumbs)].message = "Stage 2 Completed"
    /\ DOMAIN breadcrumbs[Len(breadcrumbs)].data = {"attemptId", "name"}

\* C7: in onStageCompleted only the empty-option condition selects the
\* "Completed" branch: an invocation whose read fails in any other way
\* raises and appends no breadcrumb.
C7_OnlyEmptyOptionCompletes ==
    lastCall.kind = "onStageCompleted" =>
        LET failed == {i \in 1..lastCall.n : lastCall.faults[i] # "none"}
        IN  /\ lastCall.raised = Cardinality(failed)
            /\ Len(Appended) = lastCall.n - Cardinality(failed)

(***************************************************************************)
(* Claims about activation (checked under Spec).                           *)
(***************************************************************************)
Range(f) == {f[x] : x \in DOMAIN f}

\* Thread t's call has run _activate_integration to its end.
Activated(t) == "hook" \in Range(did[t])

\* The event processors installed for session s.
HookCount(s) == Cardinality({i \in 1..Len(hooks) : hooks[i] = s})

\* The _set_app_properties calls that activations of session s have made.
PropagationCount(s) == Cardinality({t \in Threads : tsc[t] = s /\ "props" \in Range(did[t])})

\* C1: after activate has been called twice for the same session there is
\* exactly one listener registration, one property propagation and one
\* event processor for it, and a job-end event delivered to the session
\* afterwards produces exactly one breadcrumb.
C1_ActivateTwiceInstallsOnce ==
    \A s \in Sessions :
        (Cardinality({t \in Threads : tsc[t] = s /\ Activated(t)}) = 2) =>
            /\ listeners[s] = 1
            /\ PropagationCount(s) = 1
            /\ HookCount(s) = 1
            /\ (lastCall.kind = "onJobEnd" /\ lastCall.sc = s /\ lastCall.n = listeners[s])
                  => Len(Appended) = 1

\* C8: while two threads are inside the patched initialization of the same
\* session at the same time, the session has at most one listener, one
\* property propagation and one event processor.
C8_ConcurrentActivationAtMostOnce ==
    \A t1, t2 \in Threads :
        (/\ t1 # t2
         /\ tsc[t1] = tsc[t2]
         /\ path[t1] = "patched" /\ path[t2] = "patched"
         /\ pc[t1] # "done" /\ pc[t2] # "done") =>
            /\ listeners[tsc[t1]] <= 1
            /\ PropagationCount(tsc[t1]) <= 1
            /\ HookCount(tsc[t1]) <= 1

\* No two calls are about the same session.
DistinctSessions ==
    \A t1, t2 \in Threads : (t1 # t2 /\ tsc[t1] # None) => tsc[t1] # tsc[t2]

\* C9: when the sessions are initialized once each, however the calls
\* interleave: no session ever has more than one listener; a patched
\* initialization that returned has run the whole activation for its
\* session, which then has exactly one listener and one event processor;
\* and every event delivered to a session's bus appended one breadcrumb per
\* listener invocation that did not raise, with the earlier breadcrumbs
\* kept.
C9_TwoSessionsOneListenerEach ==
    DistinctSessions =>
        /\ \A s \in Sessions : listeners[s] <= 1
        /\ \A t \in Threads :
              (path[t] = "patched" /\ outcome[t] = "returned") =>
                  /\ did[t] = <<"orig", "listener", "props", "hook">>
                  /\ listeners[tsc[t]] = 1
                  /\ HookCount(tsc[t]) = 1
        /\ lastCall.kind # "none" =>
              /\ lastCall.n = 1
              /\ KeptLog
              /\ Len(Appended) = lastCall.n - lastCall.raised

\* Sessions A and B were both initialized through the patched _do_init,
\* each has one listener, and an event of each has left its breadcrumb.
C9_Witness ==
    /\ \A t \in Threads : path[t] = "patched" /\ outcome[t] = "returned"
    /\ DistinctSessions
    /\ listeners = [s \in Sessions |-> 1]
    /\ Len(breadcrumbs) = 2
    /\ lastCall.kind = "onJobEnd" /\ lastCall.sc = "B"
    /\ lastCall.log0 = <<[level |-> "info", message |-> "Stage 1 Submitted",
                          data |-> [attemptId |-> 0, name |-> "map"]]>>

IsPrefix(a, b) == Len(a) <= Len(b) /\ a = SubSeq(b, 1, Len(a))

\* C10: the patched initialization runs the original first and activates
\* only after it returned; a call whose original initialization raised has
\* registered no listener, written no property and installed no processor,
\* and as long as no original initialization has returned (and setup_once
\* has activated nothing) there is no listener, property or processor.
C10_ActivateOnlyAfterOriginal ==
    /\ \A t \in Threads :
          /\ path[t] = "patched" => IsPrefix(did[t], <<"orig", "listener", "props", "hook">>)
          /\ outcome[t] = "init_raised" => did[t] = <<>>
    /\ (\A t \in Threads : did[t] \in {<<>>, <<"patch">>}) =>
          /\ listeners = [s \in Sessions |-> 0]
          /\ hooks = <<>>
          /\ props = [s \in Sessions |-> EmptyDict]

\* The original initialization of a patched call raised while the other
\* thread's call was still before its own: nothing is installed.
C10_Witness ==
    \E t \in Threads :
        /\ path[t] = "patched" /\ outcome[t] = "init_raised"
        /\ \E u \in Threads : pc[u] = "orig" /\ path[u] = "patched"
        /\ listeners = [s \in Sessions |-> 0]
        /\ hooks = <<>>

\* C11: a patched initialization entered while the integration is not
\* enabled is a passthrough: it runs the original initialization and
\* nothing else, it returns when the original returns, and as long as every
\* call so far was a passthrough (or made before the patch) no listener,
\* property or processor exists.
C11_DisabledIsPassthrough ==
    /\ \A t \in Threads :
          path[t] = "passthrough" =>
              /\ did[t] \in {<<>>, <<"orig">>}
              /\ pc[t] \in {"orig", "done"}
              /\ pc[t] = "done" =>
                    /\ outcome[t] \in {"returned", "init_raised"}
                    /\ outcome[t] = "returned" <=> did[t] = <<"orig">>
    /\ (\A t \in Threads : path[t] \in {"none", "passthrough", "unpatched"}) =>
          /\ listeners = [s \in Sessions |-> 0]
          /\ hooks = <<>>
          /\ props = [s \in Sessions |-> EmptyDict]

\* Both sessions were initialized through the wrapper while the integration
\* was not enabled; both calls returned, B is active, nothing is installed.
C11_Witness ==
    /\ patched
    /\ \A t \in Threads : path[t] = "passthrough" /\ outcome[t] = "returned"
    /\ DistinctSessions
    /\ active = "B"
    /\ listeners = [s \in Sessions |-> 0]
    /\ hooks = <<>>

\* C12: setup_once activates the session that is active when it runs, once
\* and before it installs the patch, and activates nothing when no session
\* is active; when it has returned the patch is installed, and a patched
\* initialization that returns afterwards has activated its session.
C12_SetupActivatesRunningSession ==
    /\ \A t \in Threads :
          path[t] = "setup" =>
              /\ tsc[t] = None => did[t] \in {<<>>, <<"patch">>}
              /\ tsc[t] # None =>
                    IsPrefix(did[t], <<"listener", "props", "hook", "patch">>)
              /\ outcome[t] = "returned" =>
                    /\ patched
                    /\ did[t] = IF tsc[t] = None
                                THEN <<"patch">>
                                ELSE <<"listener", "props", "hook", "patch">>
                    /\ (tsc[t] # None /\ \A u \in Threads \ {t} : tsc[u] # tsc[t]) =>
                          /\ listeners[tsc[t]] = 1
                          /\ HookCount(tsc[t]) = 1
    /\ (\E t \in Threads : "patch" \in Range(did[t])) => patched
    /\ \A u \in Threads :
          (path[u] = "patched" /\ outcome[u] = "returned") => Activated(u)

\* setup_once found session A active, activated it and installed the
\* patch; session B was initialized later and was activated by the patch.
C12_Witness ==
    \E t, u \in Threads :
        /\ path[t] = "setup" /\ outcome[t] = "returned" /\ tsc[t] = "A"
        /\ did[t] = <<"listener", "props", "hook", "patch">>
        /\ path[u] = "patched" /\ outcome[u] = "returned" /\ tsc[u] = "B"
        /\ hooks = <<"A", "B">>
        /\ listeners = [s \in Sessions |-> 1]

ActivationStep(x) == x \in {"listener", "props", "hook"}

\* C13: the steps of one activation happen in the order listener
\* registration, property propagation, processor installation: the steps a
\* call has completed are always a prefix of that sequence, and each step
\* completed has had its effect before the next one starts.
C13_ActivationOrder ==
    \A t \in Threads :
        /\ IsPrefix(SelectSeq(did[t], ActivationStep), <<"listener", "props", "hook">>)
        /\ pc[t] = "props" => listeners[tsc[t]] >= 1 /\ ~Activated(t)
        /\ pc[t] = "hook" => "props" \in Range(did[t])
        /\ Activated(t) => HookCount(tsc[t]) >= 1

\* An activation of the active session A stands between propagation and
\* processor installation: listener and properties are there, no processor.
C13_Witness ==
    \E t \in Threads :
        /\ pc[t] = "hook" /\ tsc[t] = "A" /\ active = "A"
        /\ did[t] = <<"orig", "listener", "props">>
        /\ listeners["A"] = 1
        /\ props["A"] = [sentry_app_name |-> AppName("A", 1),
                         sentry_application_id |-> ApplicationId("A", 1)]
        /\ hooks = <<>>

\* C14: a call that ended with an exception (the original initialization,
\* the listener registration or a later step of the activation raised) has
\* ended for its caller with that exception, and has completed none of the
\* activation steps: it leaves no listener without properties and
\* processor.
C14_FaultLeavesNothingInstalled ==
    \A t \in Threads :
        outcome[t] \notin {"none", "returned"} =>
            /\ pc[t] = "done"
            /\ SelectSeq(did[t], ActivationStep) = <<>>

(***************************************************************************)
(* Claims about propagation and the breadcrumb log (SpecListener).         *)
(***************************************************************************)
\* The step is a delivery of a callback of one of the kinds.
Delivered(kinds) == lastCall' # lastCall /\ lastCall'.kind \in kinds

IdentityKeys == {"sentry_app_name", "sentry_application_id"}

\* The store pr with the two identity properties of session sc, generation
\* gen, written into the properties of sc, everything else as it was.
WithIdentity(pr, sc, gen) ==
    [s \in DOMAIN pr |->
        IF s # sc THEN pr[s]
        ELSE [k \in DOMAIN pr[s] \cup IdentityKeys |->
                 IF k = "sentry_app_name" THEN sc \o ".appName#" \o ToString(gen)
                 ELSE IF k = "sentry_application_id"
                      THEN sc \o ".applicationId#" \o ToString(gen)
                      ELSE pr[s][k]]]

\* C15: a propagation (the one each onJobStart and onStageSubmitted runs)
\* writes the app name and the application id of the active session into
\* that session's properties and nothing else, writes nothing when no
\* session is active, and running it again on the result changes nothing.
C15_PropagateWritesIdentity ==
    [][Delivered({"onJobStart", "onStageSubmitted"}) =>
          /\ props' = IF active = None THEN props
                      ELSE WithIdentity(props, active, ident[active])
          /\ SetAppProperties(props', active', ident') = props']_vars

\* After a callback with B active in its second generation, B's store holds
\* the foreign property and B's current identity, A's store nothing.
C15_Witness ==
    /\ lastCall.kind = "onJobStart"
    /\ active = "B" /\ ident["B"] = 2
    /\ props["B"] = [spark_scheduler_pool |-> "pool",
                     sentry_app_name |-> "B.appName#2",
                     sentry_application_id |-> "B.applicationId#2"]
    /\ props["A"] = EmptyDict

\* The messages a breadcrumb derived from the callback call can carry.
CrumbMessages(call) ==
    CASE call.kind = "onJobStart" ->
            {"Job " \o ToString(call.arg.jobId) \o " Started"}
      [] call.kind = "onJobEnd" ->
            {"Job " \o ToString(call.arg.jobId) \o " Ended",
             "Job " \o ToString(call.arg.jobId) \o " Failed"}
      [] call.kind = "onStageSubmitted" ->
            {"Stage " \o ToString(call.arg.stageInfo.stageId) \o " Submitted"}
      [] call.kind = "onStageCompleted" ->
            {"Stage " \o ToString(call.arg.stageInfo.stageId) \o " Completed",
             "Stage " \o ToString(call.arg.stageInfo.stageId) \o " Failed"}
      [] OTHER -> {}

\* C16: the breadcrumb log only grows at its end: every step keeps the log
\* it found as a prefix, and what a delivered callback adds are breadcrumbs
\* derived from that callback, one per listener invocation that did not
\* raise, so the log is in arrival order of the callbacks.
C16_LogAppendOnly ==
    [][/\ IsPrefix(breadcrumbs, breadcrumbs')
       /\ (lastCall' # lastCall /\ lastCall'.kind # "none") =>
             LET new == SubSeq(breadcrumbs', Len(breadcrumbs) + 1, Len(breadcrumbs'))
             IN  /\ lastCall'.log0 = breadcrumbs
                 /\ Len(new) = IF lastCall'.kind \in NoOpKinds THEN 0
                                ELSE lastCall'.n - lastCall'.raised
                 /\ \A i \in 1..Len(new) : new[i].message \in CrumbMessages(lastCall')]_vars

\* onJobStart(7) then onJobEnd(8, "JobFailed") arrived at one listener: the
\* log is the breadcrumb of the first followed by that of the second.
C16_Witness ==
    /\ lastCall.kind = "onJobEnd" /\ lastCall.n = 1
    /\ lastCall.log0 = <<[level |-> "info", message |-> "Job 7 Started"]>>
    /\ Len(breadcrumbs) = 2
    /\ breadcrumbs[1] = [level |-> "info", message |-> "Job 7 Started"]
    /\ breadcrumbs[2].message = "Job 8 Failed"

\* C17: each onJobStart invocation appends the info breadcrumb
\* "Job {jobId} Started" without data, each onStageSubmitted invocation the
\* info breadcrumb "Stage {stageId} Submitted" with data {attemptId, name},
\* and after either callback the store of the active session holds that
\* session's current app name and application id, whatever the application
\* had done to the store or to the identity before.
C17_StartCallbacksRepropagate ==
    lastCall.kind \in {"onJobStart", "onStageSubmitted"} =>
        LET expected ==
                IF lastCall.kind = "onJobStart"
                THEN [level |-> "info",
                      message |-> "Job " \o ToString(lastCall.arg.jobId) \o " Started"]
                ELSE [level |-> "info",
                      message |-> "Stage " \o ToString(lastCall.arg.stageInfo.stageId)
                                    \o " Submitted",
                      data |-> [attemptId |-> lastCall.arg.stageInfo.attemptId,
                                name |-> lastCall.arg.stageInfo.name]]
        IN  /\ KeptLog
            /\ Appended = [i \in 1..lastCall.n |-> expected]
            /\ active # None =>
                  /\ IdentityKeys \subseteq DOMAIN props[active]
                  /\ props[active]["sentry_app_name"] =
                        active \o ".appName#" \o ToString(ident[active])
                  /\ props[active]["sentry_application_id"] =
                        active \o ".applicationId#" \o ToString(ident[active])

\* A job start had written A's first identity; the identity changed, and
\* the stage submission that followed left the second one in the store.
C17_Witness ==
    /\ lastCall.kind = "onStageSubmitted"
    /\ lastCall.log0 = <<[level |-> "info", message |-> "Job 7 Started"]>>
    /\ active = "A" /\ ident["A"] = 2
    /\ props["A"] = [sentry_app_name |-> "A.appName#2",
                     sentry_application_id |-> "A.applicationId#2"]

\* C18: a delivery of any of the callbacks SentryListener does not override
\* leaves the breadcrumb log, the property stores and the installed
\* processors as they were, and raises nothing.
C18_OtherCallbacksNoOp ==
    [][Delivered(NoOpKinds) =>
          /\ UNCHANGED <<breadcrumbs, props, hooks>>
          /\ lastCall'.raised = 0]_vars

\* onTaskEnd arrived after a job start: the breadcrumb and the properties
\* of the job start are all there is.
C18_Witness ==
    /\ lastCall.kind = "onTaskEnd" /\ lastCall.n = 1
    /\ active = "A"
    /\ breadcrumbs = <<[level |-> "info", message |-> "Job 7 Started"]>>
    /\ IdentityKeys \subseteq DOMAIN props["A"]
    /\ hooks = <<"A">>

(***************************************************************************)
(* Claims about processors of different or repeated activations            *)
(* (SpecEnrich).                                                           *)
(***************************************************************************)
\* Both runs happened with the integration enabled, a session active and
\* no read raising.
FullRuns == enabled /\ active # None /\ hookRun.failAt = 0

\* C19: a processor fills the absent fields from the session it captured,
\* whichever session is active when it runs, and leaves the report alone
\* only when no session is active (or the integration is not enabled); so
\* when the processor of one session ran before the processor of another,
\* every field that was absent has the value of the first session.
C19_CapturedSessionEnriches ==
    /\ (hookRun.n = 1 /\ FullRuns) =>
          \A i \in 1..NSteps :
              LET before == FieldOf(eventBefore, EnrichSteps[i].c, EnrichSteps[i].k)
              IN  FieldOf(event, EnrichSteps[i].c, EnrichSteps[i].k) =
                    IF before = Absent
                    THEN ReadAttr(hookRun.sc, ident[hookRun.sc], i)
                    ELSE before
    /\ (hookRun.n = 2 /\ FullRuns) =>
          \A i \in 1..NSteps :
              LET before == FieldOf(hookRun.event0, EnrichSteps[i].c, EnrichSteps[i].k)
              IN  FieldOf(event, EnrichSteps[i].c, EnrichSteps[i].k) =
                    IF before = Absent
                    THEN ReadAttr(hookRun.sc1, ident[hookRun.sc1], i)
                    ELSE before
    /\ (hookRun.n >= 1 /\ enabled /\ active = None) => event = hookRun.event0

\* Session A was replaced by B: on a report without any field, A's
\* processor ran first, then B's, with B active; app_name is A's.
C19_Witness ==
    /\ hookRun.n = 2 /\ FullRuns
    /\ hookRun.sc1 = "A" /\ hookRun.sc = "B" /\ active = "B"
    /\ hookRun.event0 = EmptyDict
    /\ FieldOf(event, "tags", "app_name") = AppName("A", 1)
    /\ FieldOf(event, "user", "id") = Attr("A", "sparkUser")

\* C20: with nothing changed in between, a second run of a processor of
\* the same session (the same processor again, or a second copy installed
\* for that session) returns the report the first run returned.
C20_EnrichmentIdempotent ==
    (hookRun.n = 2 /\ hookRun.sc = hookRun.sc1) =>
        /\ event = eventBefore
        /\ ~hookRun.raised

\* Two processors of session A ran with A active on a report that had only
\* app_name set: the second run changed nothing in the enriched report.
C20_Witness ==
    /\ hookRun.n = 2 /\ FullRuns
    /\ hookRun.sc1 = "A" /\ hookRun.sc = "A" /\ active = "A"
    /\ hookRun.event0 = [tags |-> [app_name |-> Preset]]
    /\ FieldOf(event, "tags", "app_name") = Preset
    /\ FieldOf(event, "tags", "application_id") = ApplicationId("A", 1)
    /\ event = eventBefore

====
